---- MODULE Spec2Model ----
(***************************************************************************)
(* DiffRhythm API: the task store (api/storage.py), the task runner        *)
(* (api/tasks.py) and the HTTP endpoints (api/main.py) as a state machine. *)
(*                                                                         *)
(* Text is modelled as a sequence of tokens.  A token is a maximal run of  *)
(* characters holding no colon and no white space; ":", " " and "\n" are   *)
(* tokens of their own.  The metadata file of a task is such a text, the   *)
(* writers format it and the readers parse it as the code does.            *)
(***************************************************************************)
EXTENDS Integers, Sequences, FiniteSets, TLC

MaxTasks == 1
MaxTime == 1
\* The threads that call get_inference_engine at the same time.
MaxCallers == 3
\* The entries of the storage root a sweep walks, and the sweeps in a run.
MaxSweepDirs == 2
MaxSweeps == 2
\* The prepare_model calls in a run of adapter calls one after the other.
MaxLoads == 3
\* The runner jobs inside the adapter at the same time.
MaxJobs == 2
\* The submissions whose uploads are staged on one disk
MaxStageTasks == 2

\* cleanup_task's delay and the sweep's retention, in clock ticks (one tick
\* of the model clock is 86400 seconds).
CleanupDelay == 1

AudioMin == 95
AudioMax == 285

Ids == 1..MaxTasks
Times == 0..MaxTime

-----------------------------------------------------------------------------
(* Text *)

COLON == ":"
SP == " "
NL == "\n"

\* Below, CHOOSE r \in {e : x \in {v}} : TRUE is e with the local variable x
\* holding the value of v, worked out once.

IsSpace(c) == c = SP \/ c = NL

\* str.strip(): drop leading and trailing white space.
RECURSIVE LStrip(_)
LStrip(s) == IF s # <<>> /\ IsSpace(Head(s)) THEN LStrip(Tail(s)) ELSE s

RECURSIVE RStrip(_)
RStrip(s) ==
    IF s # <<>> /\ IsSpace(s[Len(s)]) THEN RStrip(SubSeq(s, 1, Len(s) - 1)) ELSE s

Strip(s) == RStrip(LStrip(s))

\* Index of the first occurrence of token c in s, 0 when there is none.
RECURSIVE IndexFrom(_, _, _)
IndexFrom(s, c, i) ==
    IF i > Len(s) THEN 0
    ELSE IF s[i] = c THEN i
    ELSE IndexFrom(s, c, i + 1)

Index(s, c) == IndexFrom(s, c, 1)

\* Iterating a text file: the lines, each with its trailing newline, the
\* last one possibly without.
RECURSIVE Lines(_)
Lines(text) ==
    IF text = <<>> THEN <<>>
    ELSE LET n == Index(text, NL)
         IN  IF n = 0 THEN <<text>>
             ELSE CHOOSE r \in {<<SubSeq(text, 1, n)>> \o Lines(rest) :
                                 rest \in {SubSeq(text, n + 1, Len(text))}} : TRUE

\* Variant: the value is what follows the last colon of the line.
SplitValueAtLastColon(line) ==
    LET n == CHOOSE i \in 1..Len(line) :
                 line[i] = COLON /\ \A j \in (i + 1)..Len(line) : line[j] # COLON
    IN  SubSeq(line, n + 1, Len(line))

\* line.split(":", 1) of a line holding a colon.
SplitKey(line) == SubSeq(line, 1, Index(line, COLON) - 1)
SplitValue(line) == SubSeq(line, Index(line, COLON) + 1, Len(line))

-----------------------------------------------------------------------------
(* Python dict with string keys: a sequence of <<key, value>> in insertion  *)
(* order, keys and values being texts.                                     *)

HasKey(d, k) == \E i \in 1..Len(d) : d[i][1] = k

Get(d, k) == d[CHOOSE i \in 1..Len(d) : d[i][1] = k][2]

\* d[k] = v: an existing key keeps its place.
Put(d, k, v) ==
    CHOOSE r \in {IF HasKey(e, key)
                  THEN [i \in 1..Len(e) |-> IF e[i][1] = key THEN <<key, val>> ELSE e[i]]
                  ELSE Append(e, <<key, val>>) :
                  e \in {d}, key \in {k}, val \in {v}} : TRUE

\* for key, value in kwargs.items(): metadata[key] = str(value)
RECURSIVE PutAll(_, _)
PutAll(d, kw) ==
    IF kw = <<>> THEN d
    ELSE CHOOSE r \in {PutAll(e, rest) :
                          e \in {Put(d, kw[1][1], kw[1][2])}, rest \in {Tail(kw)}} : TRUE

\* for key, value in metadata.items(): f.write(f"{key}: {value}\n")
RECURSIVE FormatMetadata(_)
FormatMetadata(d) ==
    IF d = <<>> THEN <<>>
    ELSE CHOOSE r \in {d[1][1] \o <<COLON, SP>> \o d[1][2] \o <<NL>> \o FormatMetadata(rest) :
                          rest \in {Tail(d)}} : TRUE

\* for line in f: if ":" in line: key, value = line.split(":", 1);
\*     metadata[key.strip()] = value.strip()
RECURSIVE ParseLines(_, _)
ParseLines(ls, d) ==
    IF ls = <<>> THEN d
    ELSE CHOOSE r \in {ParseLines(rest, e) :
                          rest \in {Tail(ls)},
                          e \in {IF Index(ls[1], COLON) # 0
                                 THEN Put(d, Strip(SplitKey(ls[1])), Strip(SplitValue(ls[1])))
                                 ELSE d}} : TRUE

ParseMetadata(text) == CHOOSE r \in {ParseLines(ls, <<>>) : ls \in {Lines(text)}} : TRUE

-----------------------------------------------------------------------------
(* Values written into records *)

Txt(tok) == <<tok>>

\* str(uuid.uuid4()): the ids are allocated in the order 1, 2, ...
TaskIdStr(id) == "task" \o ToString(id)

\* storage.get_task_directory and the paths below it.  A path holds no
\* colon and no white space: it is one token.
TaskDirPath(id) == "api_storage/" \o TaskIdStr(id)
MetadataPath(id) == TaskDirPath(id) \o "/metadata.txt"
OutputDirPath(id) == TaskDirPath(id) \o "/output"
InputPath(id, filename) == TaskDirPath(id) \o "/input/" \o filename
\* os.path.join(output_dir, "output.wav")
OutputWavPath(id) == OutputDirPath(id) \o "/output.wav"

\* datetime.isoformat(): the time of day is written with colons.
IsoFormat(t) == <<"2026-01-0" \o ToString(t + 1) \o "T00", COLON, "00", COLON, "00">>

\* str(int) of the progress checkpoints, and int(str) of a record value:
\* the texts int() accepts, with their values.
Numerals == {<<"0", 0>>, <<"10", 10>>, <<"100", 100>>}
IntStr(n) == (CHOOSE p \in Numerals : p[2] = n)[1]
IsIntText(v) == Len(v) = 1 /\ \E p \in Numerals : p[1] = v[1]
IntOf(v) == (CHOOSE p \in Numerals : p[1] = v[1])[2]

\* str(e) of the exceptions the file system raises.
FileNotFoundMsg(path) ==
    <<"[Errno 2] No such file or directory", COLON, SP, "'" \o path \o "'">>

\* str(e) of the ValueError of _initialize_models.
InvalidLengthMsg(n) ==
    <<"Invalid audio_length", COLON, SP, ToString(n) \o ". Supported values are exactly 95 or any value between 96 and 285 (inclusive).">>

\* str(e) of what the inference library raises: any text.  A message of
\* one line, holding a colon, and messages of several lines.
LibraryMsgs ==
    { <<"CUDA error", COLON, SP, "out of memory">>,
      <<"decode failed", NL, "status", COLON, SP, "created">>,
      <<"decode failed", NL, "status", COLON, SP, "completed">>,
      <<"decode failed", NL, "output_path", COLON, SP, "none">>,
      <<"decode failed", NL, "progress", COLON, SP, "n/a">> }

\* str(e) of what prepare_model raises.
LoadMsgs == { <<"CUDA error", COLON, SP, "out of memory">> }

-----------------------------------------------------------------------------
(* State *)

VARIABLES
    nextId,       \* the next task id uuid4 hands out: 1..nextId-1 are allocated
    now,          \* datetime.now(), in ticks
    taskDir,      \* taskDir[id]: {base}/{id} exists
    outputDir,    \* outputDir[id]: {base}/{id}/output exists
    outputWav,    \* outputWav[id]: {base}/{id}/output/output.wav exists
    inputFiles,   \* inputFiles[id]: the file names present in {base}/{id}/input
    metaExists,   \* metaExists[id]: {base}/{id}/metadata.txt exists
    metaText,     \* metaText[id]: its content
    params,       \* params[id]: the task_params the endpoint hands to the runner
    runner,       \* runner[id]: the background job generate_music_task/edit_music_task
    cleanup,      \* cleanup[id]: the background job cleanup_task(id, delay=86400)
    engine,       \* the process-wide DiffRhythmInference handle
    loop,         \* the delete_task handler the event loop is inside, if any
    deleted,      \* the ids for which a DELETE /api/tasks/{id} has answered 200
    shown,        \* shown[id]: the status read from the record of id as last written
    last,         \* the last request and its answer (recorded under SubmitSpec and QuerySpec)
    callers,      \* the threads inside get_inference_engine (EngineSpec only)
    sweep,        \* the storage root cleanup_old_tasks walks (SweepSpec only)
    jobs,         \* the runner jobs inside the adapter side by side (SharedSpec only)
    disk          \* the directories and files under the file system root (StageSpec only)

fsVars == <<taskDir, outputDir, outputWav, inputFiles, metaExists, metaText>>
jobVars == <<params, runner, cleanup>>
auxVars == <<callers, sweep, jobs, disk>>
vars == <<nextId, now, taskDir, outputDir, outputWav, inputFiles, metaExists,
          metaText, params, runner, cleanup, engine, loop, deleted, shown, last,
          callers, sweep, jobs, disk>>

NoParams == [ep |-> "none", audio_length |-> 0, batch_infer_num |-> 0,
             ref_audio |-> <<>>, ref_prompt |-> <<>>, ref_song |-> <<>>]

\* pc: where the job is; stage: which update_task_status call it is in or
\* came from; kw: that call's status and keyword arguments; buf: the text
\* the call is about to write; linked: the file it opened for writing is
\* still the one at the metadata path.
NoCall == [status |-> <<>>, extra |-> <<>>]

\* raised: who raised what the except block caught ("adapter": generate or
\* edit; "store": update_task_status).
IdleRunner == [pc |-> "none", stage |-> "none", kw |-> NoCall, buf |-> <<>>,
               linked |-> FALSE, raised |-> "none"]

IdleCleanup == [pc |-> "none", wake |-> 0]

\* _inference_engine is None; once made: max_frames and the configuration
\* the loaded models were prepared for (0: None); loads: the calls of
\* prepare_model so far.
NoEngine == [made |-> FALSE, max_frames |-> 0, models |-> 0, loads |-> 0]

IdleLoop == [pc |-> "idle", id |-> 0]

NoSubmission == [req |-> NoParams, code |-> 0, task |-> 0]

Callers == 1..MaxCallers

\* _inference_engine is None (0) and no DiffRhythmInference object has been
\* constructed; no thread is inside get_inference_engine.  The objects are
\* numbered in the order of their construction.
IdleCaller == [pc |-> "idle", obj |-> 0, got |-> 0]
NoCallers == [global |-> 0, made |-> 0, thread |-> [c \in Callers |-> IdleCaller]]

Jobs == 1..MaxJobs

\* A job that has not called the adapter: n its audio_length, max_frames
\* the local of _initialize_models, frames and models what its inference
\* was run with.
IdleJob == [pc |-> "idle", n |-> 0, max_frames |-> 0, frames |-> 0, models |-> 0]
NoJobs == [j \in Jobs |-> IdleJob]

\* The storage root alone, no task in it.  A path is the sequence of its
\* components from the file system root; files holds <<path, content>> of
\* every file; next is the next task id; staged is what the last
\* submission handed to save_uploaded_file and the paths it got back.
StoragePath == <<"base", "api_storage">>
NoDisk ==
    [dirs |-> {<<>>, <<"base">>, StoragePath}, files |-> {}, next |-> 1,
     staged |-> [id |-> 0, ok |-> FALSE, roles |-> <<>>]]

\* An empty storage root, never swept.
NoSweep == [dirs |-> <<>>, runs |-> 0, max_age |-> 0]

Init ==
    /\ nextId = 1
    /\ now = 0
    /\ taskDir = [i \in Ids |-> FALSE]
    /\ outputDir = [i \in Ids |-> FALSE]
    /\ outputWav = [i \in Ids |-> FALSE]
    /\ inputFiles = [i \in Ids |-> {}]
    /\ metaExists = [i \in Ids |-> FALSE]
    /\ metaText = [i \in Ids |-> <<>>]
    /\ params = [i \in Ids |-> NoParams]
    /\ runner = [i \in Ids |-> IdleRunner]
    /\ cleanup = [i \in Ids |-> IdleCleanup]
    /\ engine = NoEngine
    /\ loop = IdleLoop
    /\ deleted = {}
    /\ shown = [i \in Ids |-> <<>>]
    /\ last = NoSubmission
    /\ callers = NoCallers
    /\ sweep = NoSweep
    /\ jobs = NoJobs
    /\ disk = NoDisk

-----------------------------------------------------------------------------
(* api/storage.py *)

\* Variant: the record is created with the status the response reports.
CreateTaskRecordQueued(id, t) ==
    FormatMetadata(<< <<Txt("task_id"), Txt(TaskIdStr(id))>>,
                      <<Txt("created_at"), IsoFormat(t)>>,
                      <<Txt("status"), Txt("queued")>> >>)

\* create_task_directory: the record it writes.
CreateTaskRecord(id, t) ==
    FormatMetadata(<< <<Txt("task_id"), Txt(TaskIdStr(id))>>,
                      <<Txt("created_at"), IsoFormat(t)>>,
                      <<Txt("status"), Txt("created")>> >>)

\* update_task_status, from the record read to the text written.
UpdatedRecord(text, status, extra, t) ==
    CHOOSE r \in {FormatMetadata(metadata) :
                     metadata \in {PutAll(Put(Put(ParseMetadata(text), Txt("status"), status),
                                              Txt("updated_at"), IsoFormat(t)),
                                          extra)}} : TRUE

\* get_task_metadata of an existing record.
GetTaskMetadata(id) == ParseMetadata(metaText[id])

\* get_task_status: status=metadata.get("status", "unknown")
StatusOf(d) == IF HasKey(d, Txt("status")) THEN Get(d, Txt("status")) ELSE Txt("unknown")

\* save_uploaded_file: open(input_dir / filename, "wb") raises when the
\* path is the input directory itself.
StageRaises(filename) == filename = ""

\* The file names of a sequence of uploads staged in order, up to the
\* first one that raises.
RECURSIVE StagedNames(_)
StagedNames(names) ==
    IF names = <<>> \/ StageRaises(names[1]) THEN {}
    ELSE {names[1]} \cup StagedNames(Tail(names))

StagingRaises(names) == \E i \in 1..Len(names) : StageRaises(names[i])

-----------------------------------------------------------------------------
(* api/main.py: POST /api/generate and POST /api/edit *)

\* A multipart submission.  An absent optional field is <<>>; a file field
\* is <<filename>>; the text prompt is a non-empty text.
Lengths == {AudioMin - 1, AudioMin, AudioMax, AudioMax + 1}
BatchNums == {0, 1}
RefAudios == {<<>>, <<"ref.wav">>, <<"">>}
RefPrompts == {<<>>, <<"pop">>}

GenerateRequests ==
    [ep : {"generate"}, audio_length : Lengths, batch_infer_num : BatchNums,
     ref_audio : RefAudios, ref_prompt : RefPrompts, ref_song : {<<>>}]

EditRequests ==
    [ep : {"edit"}, audio_length : Lengths, batch_infer_num : BatchNums,
     ref_audio : RefAudios, ref_prompt : RefPrompts, ref_song : {<<"song.wav">>}]

\* Variant: only the absence of both style inputs is checked.
StyleRejectedNeitherOnly(req) == req.ref_audio = <<>> /\ req.ref_prompt = <<>>

\* The two style checks both handlers start with.
StyleRejected(req) ==
    \/ req.ref_audio = <<>> /\ req.ref_prompt = <<>>
    \/ req.ref_audio # <<>> /\ req.ref_prompt # <<>>

\* generate_music's range check.
LengthRejected(req) == req.audio_length < AudioMin \/ req.audio_length > AudioMax

GenerateRejected(req) == StyleRejected(req) \/ LengthRejected(req)

\* edit_music has the style checks only.
EditRejected(req) == StyleRejected(req)

\* The uploads a handler stages, in order.
GenerateUploads(req) == <<"lyrics.lrc">> \o req.ref_audio
EditUploads(req) == <<"lyrics.lrc">> \o req.ref_song \o req.ref_audio

\* Variant: no deferred cleanup is added to the background tasks.
NoCleanup == IdleCleanup

QueuedRunner == [IdleRunner EXCEPT !.pc = "queued"]
PendingCleanup == [IdleCleanup EXCEPT !.pc = "pending"]

\* From uuid4 to the response, for a submission that passed validation:
\* create the directory and the record, stage the uploads, and, unless
\* staging raised, enqueue the runner and then the deferred cleanup.
AcceptSubmission(req, uploads) ==
    LET id == nextId
        ok == ~StagingRaises(uploads)
    IN  /\ nextId \in Ids
        /\ nextId' = nextId + 1
        /\ taskDir' = [taskDir EXCEPT ![id] = TRUE]
        /\ outputDir' = [outputDir EXCEPT ![id] = TRUE]
        /\ metaExists' = [metaExists EXCEPT ![id] = TRUE]
        /\ metaText' = [metaText EXCEPT ![id] = CreateTaskRecord(id, now)]
        /\ inputFiles' = [inputFiles EXCEPT ![id] = StagedNames(uploads)]
        /\ params' = [params EXCEPT ![id] = IF ok THEN req ELSE @]
        /\ runner' = [runner EXCEPT ![id] = IF ok THEN QueuedRunner ELSE @]
        /\ cleanup' = [cleanup EXCEPT ![id] = IF ok THEN PendingCleanup ELSE @]
        /\ shown' = [shown EXCEPT ![id] = Txt("created")]
        /\ UNCHANGED <<now, outputWav, engine, loop, deleted, auxVars>>

RejectSubmission ==
    UNCHANGED <<nextId, now, taskDir, outputDir, outputWav, inputFiles,
                metaExists, metaText, params, runner, cleanup, engine, loop,
                deleted, shown, auxVars>>

\* The HTTP status and the task id of the response.
SubmitCode(rejected, uploads) ==
    IF rejected THEN 400 ELSE IF StagingRaises(uploads) THEN 500 ELSE 200

SubmitAnswer(req, rejected, uploads) ==
    [req |-> req, code |-> SubmitCode(rejected, uploads),
     task |-> IF SubmitCode(rejected, uploads) = 200 THEN nextId ELSE 0]

\* generate_music, all but the record of the answer.
GenerateMusic(req) ==
    /\ loop.pc = "idle"
    /\ IF GenerateRejected(req) THEN RejectSubmission
       ELSE AcceptSubmission(req, GenerateUploads(req))

\* edit_music, likewise.
EditMusic(req) ==
    /\ loop.pc = "idle"
    /\ IF EditRejected(req) THEN RejectSubmission
       ELSE AcceptSubmission(req, EditUploads(req))

-----------------------------------------------------------------------------
(* api/tasks.py: generate_music_task and edit_music_task *)

\* storage.update_task_status(task_id, status, **extra) is entered.
BeginUpdate(stage, status, extra) ==
    [IdleRunner EXCEPT !.pc = "check", !.stage = stage,
                       !.kw = [status |-> status, extra |-> extra]]

\* error_msg = f"Error in generation task: {str(e)}" (edit: "Error in edit task")
ErrorMsg(ep, msg) ==
    <<IF ep = "edit" THEN "Error in edit task" ELSE "Error in generation task",
      COLON, SP>> \o msg

\* The except block: the failure is recorded with update_task_status.  An
\* exception raised by that call itself leaves the job.
Catch(id, msg, who) ==
    IF runner[id].stage = "failed"
    THEN [IdleRunner EXCEPT !.pc = "crashed", !.stage = "failed",
                            !.raised = runner[id].raised]
    ELSE [BeginUpdate("failed", Txt("failed"),
              << <<Txt("error"), ErrorMsg(params[id].ep, msg)>>,
                 <<Txt("completed_at"), IsoFormat(now)>> >>)
          EXCEPT !.raised = who]

\* Variant: a recorded failure puts the job back in the queue.
AfterUpdateRetry(id) ==
    [IdleRunner EXCEPT !.stage = runner[id].stage, !.raised = runner[id].raised,
                       !.pc = CASE runner[id].stage = "p0" -> "engine"
                                [] runner[id].stage = "p10" -> "models"
                                [] runner[id].stage = "failed" -> "queued"
                                [] OTHER -> "done"]

\* Where the job goes on when an update_task_status call returns.
AfterUpdate(id) ==
    [IdleRunner EXCEPT !.stage = runner[id].stage, !.raised = runner[id].raised,
                       !.pc = CASE runner[id].stage = "p0" -> "engine"
                                [] runner[id].stage = "p10" -> "models"
                                [] OTHER -> "done"]

\* storage.update_task_status(task_id, "processing", progress=0)
RunnerStart(id) ==
    /\ runner[id].pc = "queued"
    /\ runner' = [runner EXCEPT ![id] =
           BeginUpdate("p0", Txt("processing"), << <<Txt("progress"), Txt(IntStr(0))>> >>)]
    /\ UNCHANGED <<nextId, now, fsVars, params, cleanup, engine, loop, deleted, shown, last, auxVars>>

\* Variant: update_task_status goes on without the existence test.
MetadataPathExistsAssumed(id) == TRUE

\* metadata_path.exists()
MetadataPathExists(id) == metaExists[id]

\* update_task_status: if not metadata_path.exists(): return
UpdateCheck(id) ==
    /\ runner[id].pc = "check"
    /\ runner' = [runner EXCEPT ![id] =
           IF MetadataPathExists(id) THEN [@ EXCEPT !.pc = "read"] ELSE AfterUpdate(id)]
    /\ UNCHANGED <<nextId, now, fsVars, params, cleanup, engine, loop, deleted, shown, last, auxVars>>

\* update_task_status: the record is read and the new text is made.
UpdateRead(id) ==
    /\ runner[id].pc = "read"
    /\ runner' = [runner EXCEPT ![id] =
           IF metaExists[id]
           THEN [@ EXCEPT !.pc = "open",
                          !.buf = UpdatedRecord(metaText[id], runner[id].kw.status,
                                               runner[id].kw.extra, now)]
           ELSE Catch(id, FileNotFoundMsg(MetadataPath(id)), "store")]
    /\ UNCHANGED <<nextId, now, fsVars, params, cleanup, engine, loop, deleted, shown, last, auxVars>>

\* Variant: the writer makes the task directory when it is missing.
MetadataWritableAlways(id) == TRUE

\* open(metadata_path, "w") needs the task directory.
MetadataWritable(id) == taskDir[id]

\* update_task_status: open(metadata_path, "w") truncates or creates the file.
UpdateOpen(id) ==
    /\ runner[id].pc = "open"
    /\ IF MetadataWritable(id)
       THEN /\ taskDir' = [taskDir EXCEPT ![id] = TRUE]
            /\ metaExists' = [metaExists EXCEPT ![id] = TRUE]
            /\ metaText' = [metaText EXCEPT ![id] = <<>>]
            /\ runner' = [runner EXCEPT ![id] = [@ EXCEPT !.pc = "write", !.linked = TRUE]]
       ELSE /\ runner' = [runner EXCEPT ![id] = Catch(id, FileNotFoundMsg(MetadataPath(id)), "store")]
            /\ UNCHANGED <<taskDir, metaExists, metaText>>
    /\ UNCHANGED <<nextId, now, outputDir, outputWav, inputFiles, params, cleanup,
                   engine, loop, deleted, shown, last, auxVars>>

\* update_task_status: the text reaches the file when it is closed, unless
\* the file was unlinked while open.
UpdateWrite(id) ==
    /\ runner[id].pc = "write"
    /\ metaText' = [metaText EXCEPT ![id] = IF runner[id].linked THEN runner[id].buf ELSE @]
    /\ shown' = [shown EXCEPT ![id] =
           IF runner[id].linked THEN StatusOf(ParseMetadata(runner[id].buf)) ELSE @]
    /\ runner' = [runner EXCEPT ![id] = AfterUpdate(id)]
    /\ UNCHANGED <<nextId, now, taskDir, outputDir, outputWav, inputFiles, metaExists,
                   params, cleanup, engine, loop, deleted, last, auxVars>>

\* get_inference_engine(), then update_task_status(task_id, "processing", progress=10)
GetInferenceEngine(id) ==
    /\ runner[id].pc = "engine"
    /\ engine' = [engine EXCEPT !.made = TRUE]
    /\ runner' = [runner EXCEPT ![id] =
           BeginUpdate("p10", Txt("processing"), << <<Txt("progress"), Txt(IntStr(10))>> >>)]
    /\ UNCHANGED <<nextId, now, fsVars, params, cleanup, loop, deleted, shown, last, auxVars>>

-----------------------------------------------------------------------------
(* api/inference.py *)

SmallFrames == 2048
LargeFrames == 6144

\* Variant: every length up to 95 takes the small configuration.
MaxFramesForUpTo(n) ==
    IF n <= AudioMin THEN SmallFrames
    ELSE IF AudioMin < n /\ n <= AudioMax THEN LargeFrames
    ELSE 0

\* _initialize_models: max_frames of an audio length, 0 where it raises
\* ValueError.
MaxFramesFor(n) ==
    IF n = AudioMin THEN SmallFrames
    ELSE IF AudioMin < n /\ n <= AudioMax THEN LargeFrames
    ELSE 0

\* if self.cfm is None or self.max_frames != max_frames
NeedsLoad(mf) == engine.models = 0 \/ engine.max_frames # mf

\* generate/edit: self._initialize_models(audio_length).  prepare_model is
\* the library's: it returns the models or raises, after self.max_frames
\* was assigned.
InitializeModels(id) ==
    /\ runner[id].pc = "models"
    /\ LET n == params[id].audio_length
           mf == MaxFramesFor(n)
       IN  IF mf = 0
           THEN /\ runner' = [runner EXCEPT ![id] = Catch(id, InvalidLengthMsg(n), "adapter")]
                /\ UNCHANGED engine
           ELSE IF NeedsLoad(mf)
           THEN \/ /\ engine' = [engine EXCEPT !.max_frames = mf, !.models = mf,
                                                !.loads = @ + 1]
                   /\ runner' = [runner EXCEPT ![id] = [@ EXCEPT !.pc = "infer"]]
                \/ \E msg \in LoadMsgs :
                   /\ engine' = [engine EXCEPT !.max_frames = mf, !.loads = @ + 1]
                   /\ runner' = [runner EXCEPT ![id] = Catch(id, msg, "adapter")]
           ELSE /\ runner' = [runner EXCEPT ![id] = [@ EXCEPT !.pc = "infer"]]
                /\ UNCHANGED engine
    /\ UNCHANGED <<nextId, now, fsVars, params, cleanup, loop, deleted, shown, last, auxVars>>

\* if ref_audio_path: get_style_prompt(self.muq, ref_audio_path)
\* else: get_style_prompt(self.muq, prompt=ref_prompt)
StyleSource(p) == IF p.ref_audio # <<>> THEN "audio" ELSE "prompt"

\* The reference audio the style is taken from is not among the staged files.
StyleAudioMissing(id) ==
    /\ StyleSource(params[id]) = "audio"
    /\ params[id].ref_audio[1] \notin inputFiles[id]

\* generate/edit from open(lrc_path) to the library's inference(): the
\* lyrics file is read, the style is taken from the reference audio or
\* else from the prompt, then the library returns songs or raises.
Inference(id) ==
    /\ runner[id].pc = "infer"
    /\ IF "lyrics.lrc" \notin inputFiles[id]
       THEN runner' = [runner EXCEPT ![id] =
                Catch(id, FileNotFoundMsg(InputPath(id, "lyrics.lrc")), "adapter")]
       ELSE IF StyleAudioMissing(id)
       THEN runner' = [runner EXCEPT ![id] =
                Catch(id, FileNotFoundMsg(InputPath(id, params[id].ref_audio[1])), "adapter")]
       ELSE \/ runner' = [runner EXCEPT ![id] = [@ EXCEPT !.pc = "makedirs"]]
            \/ \E msg \in LibraryMsgs :
                   runner' = [runner EXCEPT ![id] = Catch(id, msg, "adapter")]
    /\ UNCHANGED <<nextId, now, fsVars, params, cleanup, engine, loop, deleted, shown, last, auxVars>>

\* os.makedirs(output_dir, exist_ok=True) makes the task directory too.
MakeOutputDir(id) ==
    /\ runner[id].pc = "makedirs"
    /\ taskDir' = [taskDir EXCEPT ![id] = TRUE]
    /\ outputDir' = [outputDir EXCEPT ![id] = TRUE]
    /\ runner' = [runner EXCEPT ![id] = [@ EXCEPT !.pc = "save"]]
    /\ UNCHANGED <<nextId, now, outputWav, inputFiles, metaExists, metaText, params,
                   cleanup, engine, loop, deleted, shown, last, auxVars>>

SaveFailedMsg(path) == <<"Error opening '" \o path \o "'", COLON, SP, "System error.">>

\* torchaudio.save(output_path, ...) and the return of output_path; then
\* the runner's update_task_status(task_id, "completed", progress=100,
\* output_path=output_path, completed_at=now).
SaveOutput(id) ==
    /\ runner[id].pc = "save"
    /\ IF outputDir[id]
       THEN /\ outputWav' = [outputWav EXCEPT ![id] = TRUE]
            /\ runner' = [runner EXCEPT ![id] =
                   BeginUpdate("completed", Txt("completed"),
                       << <<Txt("progress"), Txt(IntStr(100))>>,
                          <<Txt("output_path"), Txt(OutputWavPath(id))>>,
                          <<Txt("completed_at"), IsoFormat(now)>> >>)]
       ELSE /\ runner' = [runner EXCEPT ![id] = Catch(id, SaveFailedMsg(OutputWavPath(id)), "adapter")]
            /\ UNCHANGED outputWav
    /\ UNCHANGED <<nextId, now, taskDir, outputDir, inputFiles, metaExists, metaText,
                   params, cleanup, engine, loop, deleted, shown, last, auxVars>>

-----------------------------------------------------------------------------
(* shutil.rmtree(task_dir), in two steps: the entries of the directory are *)
(* removed, then the directory itself.                                     *)

\* A file the runner holds open for writing stays open but is no longer
\* the file at the metadata path.
RmtreeEntries(id) ==
    /\ metaExists' = [metaExists EXCEPT ![id] = FALSE]
    /\ metaText' = [metaText EXCEPT ![id] = <<>>]
    /\ inputFiles' = [inputFiles EXCEPT ![id] = {}]
    /\ outputDir' = [outputDir EXCEPT ![id] = FALSE]
    /\ outputWav' = [outputWav EXCEPT ![id] = FALSE]
    /\ runner' = [runner EXCEPT ![id] = [@ EXCEPT !.linked = FALSE]]
    /\ UNCHANGED taskDir

\* os.rmdir(task_dir) succeeds on an existing, empty directory.
RmdirSucceeds(id) == taskDir[id] /\ ~metaExists[id] /\ ~outputDir[id]

-----------------------------------------------------------------------------
(* api/main.py: DELETE /api/tasks/{task_id}.  The handler runs on the      *)
(* event loop, the background jobs in worker threads beside it.            *)

\* The ids a client can name: the ones a submission has answered with,
\* and 0 for any other text, which uuid4 never returns.
ClientIds == {0} \cup {id \in Ids : params[id].ep # "none"}

\* Variant: the directory of an id that was handed out is taken to exist.
ExistsIfAllocated(id) == id \in Ids

\* task_dir.exists()
Exists(id) == id \in Ids /\ taskDir[id]

\* storage.cleanup_task: if task_dir.exists()
DeleteTask(id) ==
    /\ loop.pc = "idle"
    /\ IF Exists(id)
       THEN /\ loop' = [pc |-> "entries", id |-> id]
            /\ UNCHANGED deleted
       ELSE /\ deleted' = deleted \cup {id}
            /\ UNCHANGED loop
    /\ UNCHANGED <<nextId, now, fsVars, jobVars, engine, shown, last, auxVars>>

DeleteEntries ==
    /\ loop.pc = "entries"
    /\ IF taskDir[loop.id]
       THEN /\ RmtreeEntries(loop.id)
            /\ loop' = [loop EXCEPT !.pc = "rmdir"]
       ELSE /\ loop' = IdleLoop
            /\ UNCHANGED <<fsVars, runner>>
    /\ UNCHANGED <<nextId, now, params, cleanup, engine, deleted, shown, last, auxVars>>

DeleteRmdir ==
    /\ loop.pc = "rmdir"
    /\ IF RmdirSucceeds(loop.id)
       THEN /\ taskDir' = [taskDir EXCEPT ![loop.id] = FALSE]
            /\ deleted' = deleted \cup {loop.id}
       ELSE UNCHANGED <<taskDir, deleted>>
    /\ loop' = IdleLoop
    /\ UNCHANGED <<nextId, now, outputDir, outputWav, inputFiles, metaExists, metaText,
                   jobVars, engine, shown, last, auxVars>>

-----------------------------------------------------------------------------
(* api/tasks.py: cleanup_task(task_id, delay=86400).  BackgroundTasks runs *)
(* the jobs of a response one after the other: the cleanup is called when  *)
(* the runner has returned, and not at all when the runner raised.         *)

\* time.sleep(delay) begins.
CleanupStart(id) ==
    /\ cleanup[id].pc = "pending"
    /\ runner[id].pc = "done"
    /\ cleanup' = [cleanup EXCEPT ![id] = [pc |-> "sleep", wake |-> now + CleanupDelay]]
    /\ UNCHANGED <<nextId, now, fsVars, params, runner, engine, loop, deleted, shown, last, auxVars>>

\* Variant: time.sleep returns at once.
SleepOverAtOnce(id) == TRUE

\* time.sleep(delay) returns when the delay has passed.
SleepOver(id) == now >= cleanup[id].wake

\* The sleep is over; storage.cleanup_task: if task_dir.exists()
CleanupWake(id) ==
    /\ cleanup[id].pc = "sleep"
    /\ SleepOver(id)
    /\ cleanup' = [cleanup EXCEPT ![id] =
           [@ EXCEPT !.pc = IF taskDir[id] THEN "entries" ELSE "done"]]
    /\ UNCHANGED <<nextId, now, fsVars, params, runner, engine, loop, deleted, shown, last, auxVars>>

\* shutil.rmtree; what it raises is logged and dropped.
CleanupEntries(id) ==
    /\ cleanup[id].pc = "entries"
    /\ IF taskDir[id]
       THEN /\ RmtreeEntries(id)
            /\ cleanup' = [cleanup EXCEPT ![id] = [@ EXCEPT !.pc = "rmdir"]]
       ELSE /\ cleanup' = [cleanup EXCEPT ![id] = [@ EXCEPT !.pc = "done"]]
            /\ UNCHANGED <<fsVars, runner>>
    /\ UNCHANGED <<nextId, now, params, engine, loop, deleted, shown, last, auxVars>>

CleanupRmdir(id) ==
    /\ cleanup[id].pc = "rmdir"
    /\ taskDir' = [taskDir EXCEPT ![id] = IF RmdirSucceeds(id) THEN FALSE ELSE @]
    /\ cleanup' = [cleanup EXCEPT ![id] = [@ EXCEPT !.pc = "done"]]
    /\ UNCHANGED <<nextId, now, outputDir, outputWav, inputFiles, metaExists, metaText,
                   params, runner, engine, loop, deleted, shown, last, auxVars>>

\* Time passes.
Tick ==
    /\ now < MaxTime
    /\ now' = now + 1
    /\ UNCHANGED <<nextId, fsVars, jobVars, engine, loop, deleted, shown, last, auxVars>>

-----------------------------------------------------------------------------
(* api/tasks.py get_task_status; api/main.py GET /api/status/{task_id} and *)
(* GET /api/download/{task_id}.  They change nothing: each is the answer   *)
(* computed from the files as they are.  A field that is None is <<>>.     *)

HasRecord(id) == id \in Ids /\ metaExists[id]

Field(d, k) == IF HasKey(d, Txt(k)) THEN Get(d, Txt(k)) ELSE <<>>

\* int(metadata.get("progress", 0)) raises ValueError on a text that is no
\* number.
StatusRaises(id) ==
    LET d == GetTaskMetadata(id)
    IN  HasKey(d, Txt("progress")) /\ ~IsIntText(Get(d, Txt("progress")))

\* The TaskStatusResponse get_task_status builds.
TaskStatus(id) ==
    LET d == GetTaskMetadata(id)
    IN  [task_id |-> id,
         status |-> StatusOf(d),
         progress |-> IF HasKey(d, Txt("progress")) THEN IntOf(Get(d, Txt("progress"))) ELSE -1,
         output_path |-> Field(d, "output_path"),
         created_at |-> Field(d, "created_at"),
         completed_at |-> Field(d, "completed_at"),
         error |-> Field(d, "error")]

\* get_status: the HTTP status of the answer.
GetStatusCode(id) ==
    IF ~HasRecord(id) THEN 404
    ELSE IF StatusRaises(id) THEN 500
    ELSE 200

\* Path(text).exists()
PathExists(p) ==
    /\ Len(p) = 1
    /\ \E j \in Ids :
        \/ p[1] = OutputWavPath(j) /\ outputWav[j]
        \/ p[1] = OutputDirPath(j) /\ outputDir[j]
        \/ p[1] = MetadataPath(j) /\ metaExists[j]
        \/ p[1] = TaskDirPath(j) /\ taskDir[j]
        \/ \E f \in inputFiles[j] : p[1] = InputPath(j, f)

\* download_result: the HTTP status, the detail of an error and the path
\* of the file served.
DownloadResult(id) ==
    IF ~HasRecord(id)
    THEN [code |-> 404, detail |-> Txt("Task not found"), path |-> <<>>]
    ELSE IF StatusRaises(id)
    THEN [code |-> 500, detail |-> Txt("Internal server error"), path |-> <<>>]
    ELSE IF TaskStatus(id).status # Txt("completed")
    THEN [code |-> 400,
          detail |-> <<"Task is not completed yet. Current status", COLON, SP>>
                       \o TaskStatus(id).status,
          path |-> <<>>]
    ELSE IF TaskStatus(id).output_path = <<>> \/ ~PathExists(TaskStatus(id).output_path)
    THEN [code |-> 404, detail |-> Txt("Output file not found"), path |-> <<>>]
    ELSE [code |-> 200, detail |-> <<>>, path |-> TaskStatus(id).output_path]

-----------------------------------------------------------------------------
(* The program *)

Runner(id) ==
    \/ RunnerStart(id)
    \/ UpdateCheck(id)
    \/ UpdateRead(id)
    \/ UpdateOpen(id)
    \/ UpdateWrite(id)
    \/ GetInferenceEngine(id)
    \/ InitializeModels(id)
    \/ Inference(id)
    \/ MakeOutputDir(id)
    \/ SaveOutput(id)

Cleanup(id) ==
    \/ CleanupStart(id)
    \/ CleanupWake(id)
    \/ CleanupEntries(id)
    \/ CleanupRmdir(id)

Generate == \E req \in GenerateRequests : GenerateMusic(req) /\ UNCHANGED last
Edit == \E req \in EditRequests : EditMusic(req) /\ UNCHANGED last
Delete == \E id \in ClientIds : DeleteTask(id)

Next ==
    \/ Generate
    \/ Edit
    \/ Delete
    \/ DeleteEntries
    \/ DeleteRmdir
    \/ \E id \in Ids : Runner(id)
    \/ \E id \in Ids : Cleanup(id)
    \/ Tick

Spec == Init /\ [][Next]_vars

\* The submissions, the runners and the client's deletions, at one instant:
\* the deferred cleanup of a task does not start before its runner has
\* returned.
LiveNext ==
    \/ Generate
    \/ Edit
    \/ Delete
    \/ DeleteEntries
    \/ DeleteRmdir
    \/ \E id \in Ids : Runner(id)

\* The worker thread that runs a job keeps running it: each statement of
\* the runner that can be taken is taken.
LiveSpec == Init /\ [][LiveNext]_vars /\ \A id \in Ids : WF_vars(Runner(id))

-----------------------------------------------------------------------------
(* The submissions alone, each with its answer on record. *)

GenerateAnswered ==
    \E req \in GenerateRequests :
        /\ GenerateMusic(req)
        /\ last' = SubmitAnswer(req, GenerateRejected(req), GenerateUploads(req))

EditAnswered ==
    \E req \in EditRequests :
        /\ EditMusic(req)
        /\ last' = SubmitAnswer(req, EditRejected(req), EditUploads(req))

SubmitNext ==
    \/ GenerateAnswered
    \/ EditAnswered

SubmitSpec == Init /\ [][SubmitNext]_vars

-----------------------------------------------------------------------------
(* api/storage.py: cleanup_old_tasks.  Nothing in the program calls it; it  *)
(* is applied here to storage roots drawn from the entries below.           *)

\* datetime.fromisoformat(text): the texts isoformat() writes are accepted,
\* anything else raises ValueError.
IsIsoText(v) == \E t \in Times : IsoFormat(t) = v
FromIsoFormat(v) == CHOOSE t \in Times : IsoFormat(t) = v

\* The first line that starts with "created_at:", <<>> when there is none.
RECURSIVE CreatedAtLine(_)
CreatedAtLine(ls) ==
    IF ls = <<>> THEN <<>>
    ELSE IF Len(ls[1]) >= 2 /\ ls[1][1] = "created_at" /\ ls[1][2] = COLON THEN ls[1]
    ELSE CreatedAtLine(Tail(ls))

\* The records found under a storage root: as create_task_directory and
\* update_task_status leave them, a truncated one, one with no created_at
\* line and one whose created_at is no timestamp.
SweepRecords ==
    {CreateTaskRecord(1, t) : t \in Times}
    \cup {UpdatedRecord(CreateTaskRecord(1, t), Txt("completed"),
              << <<Txt("progress"), Txt(IntStr(100))>>,
                 <<Txt("output_path"), Txt(OutputWavPath(1))>>,
                 <<Txt("completed_at"), IsoFormat(t)>> >>, t) : t \in Times}
    \cup {UpdatedRecord(CreateTaskRecord(1, t), Txt("failed"),
              << <<Txt("error"), ErrorMsg("generate", <<"CUDA error", COLON, SP, "out of memory">>)>>,
                 <<Txt("completed_at"), IsoFormat(t)>> >>, t) : t \in Times}
    \cup {<<>>,
          FormatMetadata(<< <<Txt("task_id"), Txt(TaskIdStr(1))>>,
                            <<Txt("status"), Txt("created")>> >>),
          FormatMetadata(<< <<Txt("task_id"), Txt(TaskIdStr(1))>>,
                            <<Txt("created_at"), Txt("yesterday")>>,
                            <<Txt("status"), Txt("created")>> >>)}

\* An entry of the storage root: a plain file, a directory with no
\* metadata.txt, or a directory with a record.
SweepEntries ==
    {[isDir |-> FALSE, hasMeta |-> FALSE, text |-> <<>>],
     [isDir |-> TRUE, hasMeta |-> FALSE, text |-> <<>>]}
    \cup [isDir : {TRUE}, hasMeta : {TRUE}, text : SweepRecords]

\* Variant: a task as old as the cutoff is removed too.
IsOlderOrEqual(created_at, cutoff_time) == created_at <= cutoff_time

\* if created_at < cutoff_time
IsOlder(created_at, cutoff_time) == created_at < cutoff_time

\* One turn of the loop over base_path.iterdir(): TRUE when the entry is
\* removed.  What fromisoformat raises is caught inside the loop.
SweepRemoves(e, cutoff_time) ==
    /\ e.isDir
    /\ e.hasMeta
    /\ LET line == CreatedAtLine(Lines(e.text))
           created_at_str == Strip(SplitValue(line))
       IN  /\ line # <<>>
           /\ IsIsoText(created_at_str)
           /\ IsOlder(FromIsoFormat(created_at_str), cutoff_time)

\* The loop, entry after entry in the order iterdir gives them.
RECURSIVE SweepFrom(_, _)
SweepFrom(dirs, cutoff_time) ==
    IF dirs = <<>> THEN <<>>
    ELSE (IF SweepRemoves(dirs[1].entry, cutoff_time) THEN <<>> ELSE <<dirs[1]>>)
         \o SweepFrom(Tail(dirs), cutoff_time)

\* max_age_seconds: none, and the default settings.MAX_TASK_AGE_SECONDS.
MaxAges == {0, CleanupDelay}

\* cleanup_old_tasks(max_age_seconds)
CleanupOldTasks(max_age) ==
    /\ sweep.runs < MaxSweeps
    /\ sweep' = [dirs |-> SweepFrom(sweep.dirs, now - max_age),
                 runs |-> sweep.runs + 1,
                 max_age |-> max_age]
    /\ UNCHANGED <<nextId, now, fsVars, jobVars, engine, loop, deleted, shown, last,
                   callers, jobs, disk>>

Sweep == \E max_age \in MaxAges : CleanupOldTasks(max_age)

\* Storage roots of MaxSweepDirs entries, each under its name.
SweepRoots ==
    {[i \in 1..MaxSweepDirs |-> [name |-> i, entry |-> f[i]]] :
        f \in [1..MaxSweepDirs -> SweepEntries]}

SweepInit ==
    /\ nextId = 1
    /\ now \in Times
    /\ taskDir = [i \in Ids |-> FALSE]
    /\ outputDir = [i \in Ids |-> FALSE]
    /\ outputWav = [i \in Ids |-> FALSE]
    /\ inputFiles = [i \in Ids |-> {}]
    /\ metaExists = [i \in Ids |-> FALSE]
    /\ metaText = [i \in Ids |-> <<>>]
    /\ params = [i \in Ids |-> NoParams]
    /\ runner = [i \in Ids |-> IdleRunner]
    /\ cleanup = [i \in Ids |-> IdleCleanup]
    /\ engine = NoEngine
    /\ loop = IdleLoop
    /\ deleted = {}
    /\ shown = [i \in Ids |-> <<>>]
    /\ last = NoSubmission
    /\ callers = NoCallers
    /\ jobs = NoJobs
    /\ disk = NoDisk
    /\ sweep \in [dirs : SweepRoots, runs : {0}, max_age : {0}]

SweepNext == Sweep

SweepSpec == SweepInit /\ [][SweepNext]_vars

-----------------------------------------------------------------------------
(* api/tasks.py: get_inference_engine, statement by statement, as the       *)
(* worker threads that run the background jobs of different responses call  *)
(* it side by side.                                                         *)

EngineRest ==
    <<nextId, now, fsVars, jobVars, engine, loop, deleted, shown, last, sweep, jobs,
      disk>>

\* A runner reaches inference = get_inference_engine().
EngineCall(c) ==
    /\ callers.thread[c].pc = "idle"
    /\ callers' = [callers EXCEPT !.thread[c].pc = "test"]
    /\ UNCHANGED EngineRest

\* if _inference_engine is None:
EngineTest(c) ==
    /\ callers.thread[c].pc = "test"
    /\ callers' = [callers EXCEPT !.thread[c].pc =
           IF callers.global = 0 THEN "construct" ELSE "return"]
    /\ UNCHANGED EngineRest

\* DiffRhythmInference(): a new object.
EngineConstruct(c) ==
    /\ callers.thread[c].pc = "construct"
    /\ callers' = [callers EXCEPT !.made = @ + 1,
                                  !.thread[c].obj = callers.made + 1,
                                  !.thread[c].pc = "assign"]
    /\ UNCHANGED EngineRest

\* _inference_engine = <the new object>
EngineAssign(c) ==
    /\ callers.thread[c].pc = "assign"
    /\ callers' = [callers EXCEPT !.global = callers.thread[c].obj,
                                  !.thread[c].pc = "return"]
    /\ UNCHANGED EngineRest

\* return _inference_engine
EngineReturn(c) ==
    /\ callers.thread[c].pc = "return"
    /\ callers' = [callers EXCEPT !.thread[c].got = callers.global,
                                  !.thread[c].pc = "done"]
    /\ UNCHANGED EngineRest

EngineNext ==
    \E c \in Callers :
        \/ EngineCall(c)
        \/ EngineTest(c)
        \/ EngineConstruct(c)
        \/ EngineAssign(c)
        \/ EngineReturn(c)

EngineSpec == Init /\ [][EngineNext]_vars

-----------------------------------------------------------------------------
(* api/inference.py: generate and edit called again and again on the one    *)
(* engine, with arguments drawn from the requests below, whatever the       *)
(* endpoints would have let through.  The task directory is in place and    *)
(* the uploads are staged.                                                  *)

AdapterRequests ==
    {r \in GenerateRequests \cup EditRequests :
        r.batch_infer_num = 1 /\ r.ref_audio # <<"">>}

\* The runner is at output_path = inference.generate(...) (or edit).
AtAdapterCall == [IdleRunner EXCEPT !.pc = "models", !.stage = "p10"]

\* The next call, once the one before has returned or raised.
AdapterCall(req) ==
    /\ runner[1].pc = "check"
    /\ engine.loads < MaxLoads
    /\ params' = [params EXCEPT ![1] = req]
    /\ runner' = [runner EXCEPT ![1] = AtAdapterCall]
    /\ UNCHANGED <<nextId, now, fsVars, cleanup, engine, loop, deleted, shown, last, auxVars>>

AdapterInit ==
    /\ nextId = 2
    /\ now = 0
    /\ taskDir = [i \in Ids |-> i = 1]
    /\ outputDir = [i \in Ids |-> i = 1]
    /\ outputWav = [i \in Ids |-> FALSE]
    /\ inputFiles = [i \in Ids |-> IF i = 1 THEN {"lyrics.lrc", "ref.wav", "song.wav"} ELSE {}]
    /\ metaExists = [i \in Ids |-> i = 1]
    /\ metaText = [i \in Ids |-> IF i = 1 THEN CreateTaskRecord(1, 0) ELSE <<>>]
    /\ \E req \in AdapterRequests : params = [i \in Ids |-> IF i = 1 THEN req ELSE NoParams]
    /\ runner = [i \in Ids |-> IF i = 1 THEN AtAdapterCall ELSE IdleRunner]
    /\ cleanup = [i \in Ids |-> IdleCleanup]
    /\ engine = [NoEngine EXCEPT !.made = TRUE]
    /\ loop = IdleLoop
    /\ deleted = {}
    /\ shown = [i \in Ids |-> <<>>]
    /\ last = NoSubmission
    /\ callers = NoCallers
    /\ sweep = NoSweep
    /\ jobs = NoJobs
    /\ disk = NoDisk

AdapterNext ==
    \/ \E req \in AdapterRequests : AdapterCall(req)
    \/ InitializeModels(1)
    \/ Inference(1)
    \/ MakeOutputDir(1)
    \/ SaveOutput(1)

AdapterSpec == AdapterInit /\ [][AdapterNext]_vars

-----------------------------------------------------------------------------
(* api/inference.py: generate or edit run by MaxJobs runner jobs at once,   *)
(* each in its worker thread, on the one engine get_inference_engine hands  *)
(* to all of them.  A step is one read or one assignment of a field of the  *)
(* engine; nothing in the adapter locks it.                                 *)

SharedRest ==
    <<nextId, now, fsVars, jobVars, loop, deleted, shown, last, callers, sweep, disk>>

JobLengths == {n \in Lengths : MaxFramesFor(n) # 0}

\* generate(..., audio_length=n, ...): _initialize_models works out max_frames.
JobCall(j, n) ==
    /\ jobs[j].pc = "idle"
    /\ engine.loads < MaxLoads
    /\ jobs' = [jobs EXCEPT ![j] =
           [IdleJob EXCEPT !.pc = "test", !.n = n, !.max_frames = MaxFramesFor(n)]]
    /\ UNCHANGED <<engine, SharedRest>>

\* if self.cfm is None or self.max_frames != max_frames
JobTest(j) ==
    /\ jobs[j].pc = "test"
    /\ jobs' = [jobs EXCEPT ![j].pc = IF NeedsLoad(jobs[j].max_frames) THEN "assign" ELSE "lrc"]
    /\ UNCHANGED <<engine, SharedRest>>

\* self.max_frames = max_frames
JobAssign(j) ==
    /\ jobs[j].pc = "assign"
    /\ engine' = [engine EXCEPT !.max_frames = jobs[j].max_frames]
    /\ jobs' = [jobs EXCEPT ![j].pc = "load"]
    /\ UNCHANGED SharedRest

\* self.cfm, self.tokenizer, self.muq, self.vae = prepare_model(max_frames, ...),
\* or prepare_model raises and the call is over.
JobLoad(j) ==
    /\ jobs[j].pc = "load"
    /\ \/ /\ engine' = [engine EXCEPT !.models = jobs[j].max_frames, !.loads = @ + 1]
          /\ jobs' = [jobs EXCEPT ![j].pc = "lrc"]
       \/ /\ engine' = [engine EXCEPT !.loads = @ + 1]
          /\ jobs' = [jobs EXCEPT ![j].pc = "raised"]
    /\ UNCHANGED SharedRest

\* get_lrc_token(self.max_frames, ...) and get_reference_latent(..., self.max_frames, ...)
JobLrc(j) ==
    /\ jobs[j].pc = "lrc"
    /\ jobs' = [jobs EXCEPT ![j].pc = "infer", ![j].frames = engine.max_frames]
    /\ UNCHANGED <<engine, SharedRest>>

\* inference(cfm_model=self.cfm, vae_model=self.vae, ...)
JobInfer(j) ==
    /\ jobs[j].pc = "infer"
    /\ jobs' = [jobs EXCEPT ![j].pc = "ran", ![j].models = engine.models]
    /\ UNCHANGED <<engine, SharedRest>>

\* The call is over; the worker thread takes its next job.
JobReturn(j) ==
    /\ jobs[j].pc \in {"ran", "raised"}
    /\ jobs' = [jobs EXCEPT ![j] = IdleJob]
    /\ UNCHANGED <<engine, SharedRest>>

SharedInit ==
    /\ nextId = 1
    /\ now = 0
    /\ taskDir = [i \in Ids |-> FALSE]
    /\ outputDir = [i \in Ids |-> FALSE]
    /\ outputWav = [i \in Ids |-> FALSE]
    /\ inputFiles = [i \in Ids |-> {}]
    /\ metaExists = [i \in Ids |-> FALSE]
    /\ metaText = [i \in Ids |-> <<>>]
    /\ params = [i \in Ids |-> NoParams]
    /\ runner = [i \in Ids |-> IdleRunner]
    /\ cleanup = [i \in Ids |-> IdleCleanup]
    /\ engine = [NoEngine EXCEPT !.made = TRUE]
    /\ loop = IdleLoop
    /\ deleted = {}
    /\ shown = [i \in Ids |-> <<>>]
    /\ last = NoSubmission
    /\ callers = NoCallers
    /\ sweep = NoSweep
    /\ jobs = NoJobs
    /\ disk = NoDisk

SharedNext ==
    \E j \in Jobs :
        \/ \E n \in JobLengths : JobCall(j, n)
        \/ JobTest(j)
        \/ JobAssign(j)
        \/ JobLoad(j)
        \/ JobLrc(j)
        \/ JobInfer(j)
        \/ JobReturn(j)

SharedSpec == SharedInit /\ [][SharedNext]_vars

-----------------------------------------------------------------------------
(* api/storage.py save_uploaded_file and the staging of api/main.py's two   *)
(* submissions, on a file system of directories and files.  A file name is  *)
(* the text the client put in the upload's Content-Disposition, "/" being a *)
(* token of its own.                                                        *)

SLASH == "/"

IsComponent(c) == c # SLASH

\* The components of a file name.
Components(name) == SelectSeq(name, IsComponent)

\* input_dir / filename: an absolute filename replaces input_dir.
JoinStart(input_dir, name) ==
    IF name # <<>> /\ name[1] = SLASH THEN <<>> ELSE input_dir

Parent(path) == IF path = <<>> THEN <<>> ELSE SubSeq(path, 1, Len(path) - 1)

\* The file open() is led to from directory cur by the components comps:
\* ok is FALSE when a component on the way is not a directory.
RECURSIVE Walk(_, _, _)
Walk(dirs, cur, comps) ==
    IF comps = <<>> THEN [ok |-> TRUE, path |-> cur]
    ELSE IF comps[1] \in {"", "."} THEN Walk(dirs, cur, Tail(comps))
    ELSE IF comps[1] = ".." THEN Walk(dirs, Parent(cur), Tail(comps))
    ELSE IF Tail(comps) = <<>> THEN [ok |-> TRUE, path |-> Append(cur, comps[1])]
    ELSE IF Append(cur, comps[1]) \in dirs THEN Walk(dirs, Append(cur, comps[1]), Tail(comps))
    ELSE [ok |-> FALSE, path |-> <<>>]

TaskPath(id) == Append(StoragePath, TaskIdStr(id))
InputDir(id) == Append(TaskPath(id), "input")
RecordPath(id) == Append(TaskPath(id), "metadata.txt")

\* file_path = input_dir / filename, as open() resolves it.
FilePath(dirs, id, name) == Walk(dirs, JoinStart(InputDir(id), name), Components(name))

\* open(file_path, "wb") raises: no such directory, or the path is a directory.
SaveRaises(dirs, id, name) ==
    LET target == FilePath(dirs, id, name)
    IN  ~target.ok \/ target.path \in dirs

\* with open(file_path, "wb") as f: shutil.copyfileobj(upload_file.file, f)
WriteFile(files, dirs, id, name, data) ==
    LET path == FilePath(dirs, id, name).path
    IN  {f \in files : f[1] # path} \cup {<<path, data>>}

\* create_task_directory: the three directories and the record.
CreateOnDisk(d, id) ==
    [d EXCEPT !.dirs = @ \cup {TaskPath(id), InputDir(id), Append(TaskPath(id), "output")},
              !.files = {f \in @ : f[1] # RecordPath(id)}
                            \cup {<<RecordPath(id), CreateTaskRecord(id, now)>>}]

\* The save_uploaded_file calls of a submission, in order, up to the first
\* one that raises: ups is what is left to stage, each upload a role, the
\* file name and the bytes.
RECURSIVE SaveAll(_, _, _)
SaveAll(d, id, ups) ==
    IF ups = <<>> THEN [d EXCEPT !.staged.ok = TRUE]
    ELSE IF SaveRaises(d.dirs, id, ups[1].name) THEN d
    ELSE SaveAll([d EXCEPT !.files = WriteFile(@, d.dirs, id, ups[1].name, ups[1].data),
                           !.staged.roles = Append(@,
                               [role |-> ups[1].role,
                                path |-> FilePath(d.dirs, id, ups[1].name).path])],
                 id, Tail(ups))

\* The file names a client sends.
StageNames ==
    { <<"ref.wav">>,
      <<"lyrics.lrc">>,
      <<"">>,
      <<"sub", SLASH, "ref.wav">>,
      <<"..", SLASH, "metadata.txt">>,
      <<"..", SLASH, "..", SLASH, "task1", SLASH, "metadata.txt">>,
      <<SLASH, "base", SLASH, "api_storage", SLASH, "task1", SLASH, "input", SLASH, "lyrics.lrc">> }

\* An optional upload: <<>> when the field is absent, else <<filename>>.
OptionalUploads == {<<>>} \cup {<<n>> : n \in StageNames}

Upload(role, name) == [role |-> role, name |-> name, data |-> <<role>>]

\* storage.create_task_directory(task_id), then the save_uploaded_file calls.
StageSubmission(ups) ==
    SaveAll([CreateOnDisk(disk, disk.next) EXCEPT
                 !.next = @ + 1,
                 !.staged = [id |-> disk.next, ok |-> FALSE, roles |-> <<>>]],
            disk.next, ups)

StageRest ==
    <<nextId, now, fsVars, jobVars, engine, loop, deleted, shown, last, callers, sweep, jobs>>

\* generate_music: lyrics under "lyrics.lrc", ref_audio under its own name.
StageGenerate(audio) ==
    /\ disk.next <= MaxStageTasks
    /\ disk' = StageSubmission(<<Upload("lyrics", <<"lyrics.lrc">>)>>
                   \o [i \in 1..Len(audio) |-> Upload("ref_audio", audio[i])])
    /\ UNCHANGED StageRest

\* edit_music: lyrics, then ref_song and ref_audio under their own names.
StageEdit(song, audio) ==
    /\ disk.next <= MaxStageTasks
    /\ disk' = StageSubmission(<<Upload("lyrics", <<"lyrics.lrc">>), Upload("ref_song", song)>>
                   \o [i \in 1..Len(audio) |-> Upload("ref_audio", audio[i])])
    /\ UNCHANGED StageRest

StageNext ==
    \/ \E audio \in OptionalUploads : StageGenerate(audio)
    \/ \E song \in StageNames, audio \in OptionalUploads : StageEdit(song, audio)

StageSpec == Init /\ [][StageNext]_vars

-----------------------------------------------------------------------------
(* api/main.py: GET /api/status/{task_id} and GET /api/download/{task_id}   *)
(* as requests among the steps of the program, each with its answer on      *)
(* record.                                                                  *)

\* Variant: the record is opened for writing.
OpenedForWriting(text) == <<>>

\* get_task_metadata: with open(metadata_path, "r") as f
OpenedForReading(text) == text

\* What a query leaves in storage: it opens the record, if there is one.
QueryReads(id) ==
    /\ metaText' = [i \in Ids |->
           IF i = id /\ metaExists[i] THEN OpenedForReading(metaText[i]) ELSE metaText[i]]
    /\ UNCHANGED <<nextId, now, taskDir, outputDir, outputWav, inputFiles, metaExists,
                   jobVars, engine, loop, deleted, shown, auxVars>>

Query(ep) == [NoParams EXCEPT !.ep = ep]

\* get_status
GetStatus(id) ==
    /\ loop.pc = "idle"
    /\ last' = [req |-> Query("status"), code |-> GetStatusCode(id), task |-> id]
    /\ QueryReads(id)

\* download_result
Download(id) ==
    /\ loop.pc = "idle"
    /\ last' = [req |-> Query("download"), code |-> DownloadResult(id).code, task |-> id]
    /\ QueryReads(id)

QueryNext ==
    \/ Next
    \/ \E id \in ClientIds : GetStatus(id)
    \/ \E id \in ClientIds : Download(id)

QuerySpec == Init /\ [][QueryNext]_vars

-----------------------------------------------------------------------------
(* Properties *)

Allocated == {id \in Ids : id < nextId}

\* The order created < processing < {completed, failed}; -1: none of them.
Rank(st) ==
    CASE st = Txt("created") -> 0
      [] st = Txt("processing") -> 1
      [] st = Txt("completed") -> 2
      [] st = Txt("failed") -> 2
      [] OTHER -> -1

\* C1: the status read from a task's record never moves backward in the
\* order created < processing < {completed, failed}, and once it is
\* completed or failed no later write makes it a different status.
C1_StatusNeverMovesBack ==
    [][\A id \in Ids :
          (shown[id] # <<>> /\ shown'[id] # shown[id])
              => /\ Rank(shown[id]) \in {0, 1}
                 /\ Rank(shown'[id]) >= Rank(shown[id])]_vars

\* C2: when the adapter call raised and the runner has returned, a record
\* that exists has status failed, a non-empty error, a completed_at and no
\* output_path.
C2_AdapterFailureRecorded ==
    \A id \in Ids :
        (runner[id].pc \in {"done", "crashed"} /\ runner[id].raised = "adapter"
            /\ HasRecord(id))
        => LET d == GetTaskMetadata(id)
           IN  /\ StatusOf(d) = Txt("failed")
               /\ Field(d, "error") # <<>>
               /\ HasKey(d, Txt("completed_at"))
               /\ ~HasKey(d, Txt("output_path"))

\* C3: a record with an output_path has status completed; a record with
\* status completed has progress 100, a completed_at, and an output_path
\* that is output.wav in the task's own output directory.
C3_OutputPathIffCompleted ==
    \A id \in Ids :
        HasRecord(id)
        => LET d == GetTaskMetadata(id)
           IN  /\ HasKey(d, Txt("output_path")) => StatusOf(d) = Txt("completed")
               /\ StatusOf(d) = Txt("completed")
                    => /\ Field(d, "progress") = Txt("100")
                       /\ Field(d, "output_path") = Txt(OutputWavPath(id))
                       /\ HasKey(d, Txt("completed_at"))

\* C4: the download endpoint serves the file only for a record whose status
\* is completed and whose output file exists; a record with another status
\* gets 400 naming that status; no record gets 404; a completed record with
\* no output file gets 404.
C4_DownloadAnswers ==
    \A id \in 0..MaxTasks :
        LET r == DownloadResult(id)
            st == StatusOf(GetTaskMetadata(id))
            out == Field(GetTaskMetadata(id), "output_path")
        IN  /\ ~HasRecord(id) => r.code = 404
            /\ HasRecord(id) =>
                /\ r.code = 200 => st = Txt("completed") /\ PathExists(out)
                /\ st # Txt("completed")
                     => r.code = 400 /\ SubSeq(r.detail, 4, Len(r.detail)) = st
                /\ (st = Txt("completed") /\ ~PathExists(out)) => r.code = 404

\* C5: once a delete call for an id has answered 200, the status endpoint
\* answers 404 for that id from then on, whatever the task's runner, still
\* in flight at the time, does afterwards.
C5_DeletedStaysNotFound == \A id \in deleted : GetStatusCode(id) = 404

\* A delete succeeded while the runner was in flight; the runner then wrote
\* its output and returned.
C5_Witness ==
    \E id \in deleted \cap Ids :
        /\ runner[id].pc = "done"
        /\ runner[id].stage = "completed"
        /\ outputWav[id]

BothOrNeither(req) == (req.ref_audio = <<>>) = (req.ref_prompt = <<>>)

StoreUnchanged == UNCHANGED <<nextId, fsVars, jobVars>>

\* C6: a generate or edit submission with both style inputs, or neither,
\* is answered 400 and leaves no directory, no record and no background job.
C6_StyleCheckedBeforeAllocation ==
    [][(last' # last /\ BothOrNeither(last'.req))
          => (last'.code = 400 /\ last'.task = 0 /\ StoreUnchanged)]_vars

\* A submission with both style inputs was answered 400.
C6_Witness ==
    /\ last.req.ref_audio # <<>>
    /\ last.req.ref_prompt # <<>>
    /\ last.code = 400
    /\ Allocated = {}

InRange(n) == AudioMin <= n /\ n <= AudioMax

\* A submission that is valid but for its audio_length: one style input,
\* and upload names that can be staged.
OtherwiseValid(req) ==
    /\ ~BothOrNeither(req)
    /\ \A i \in 1..Len(req.ref_audio) : req.ref_audio[i] # ""

\* C7: a submission to either endpoint with audio_length outside 95..285 is
\* answered 4xx and creates nothing; an otherwise valid one inside the range
\* is accepted with a task id.
C7_LengthCheckedOnBothEndpoints ==
    [][last' # last
          => /\ ~InRange(last'.req.audio_length)
                  => (last'.code \in 400..499 /\ StoreUnchanged)
             /\ (InRange(last'.req.audio_length) /\ OtherwiseValid(last'.req))
                  => (last'.code = 200 /\ last'.task = nextId)]_vars

\* C8: a submission with batch_infer_num below 1 is answered 4xx and no
\* task is created or enqueued for it.
C8_BatchNumChecked ==
    [][(last' # last /\ last'.req.batch_infer_num < 1)
          => (last'.code \in 400..499 /\ StoreUnchanged)]_vars

\* C9: from acceptance until the runner records processing, the status
\* endpoint answers with status queued.
C9_QueuedUntilProcessing ==
    \A id \in Ids :
        (params[id].ep # "none" /\ shown[id] = Txt("created") /\ HasRecord(id)
            /\ GetStatusCode(id) = 200)
        => TaskStatus(id).status = Txt("queued")

\* C10: right after create(id), read(id) gives a record with status created
\* and the created_at written; an id never created has no record and the
\* status endpoint answers 404 for it.
C10_CreateThenRead ==
    \A id \in 0..MaxTasks :
        IF id \in Allocated
        THEN /\ HasRecord(id)
             /\ StatusOf(GetTaskMetadata(id)) = Txt("created")
             /\ HasKey(GetTaskMetadata(id), Txt("created_at"))
             /\ TaskStatus(id).created_at = IsoFormat(now)
        ELSE /\ ~HasRecord(id)
             /\ GetStatusCode(id) = 404

\* A task was created and its record read back.
C10_Witness ==
    /\ 1 \in Allocated
    /\ GetStatusCode(1) = 200
    /\ TaskStatus(1).status = Txt("created")
    /\ GetStatusCode(0) = 404

\* The keys an update_task_status call names: status, updated_at and its
\* keyword arguments.
NamedKeys(kw) ==
    {Txt("status"), Txt("updated_at")} \cup {kw.extra[i][1] : i \in 1..Len(kw.extra)}

\* C11: the text an update writes, read back, gives every field the call
\* named the value the call gave it, and every other field of the record
\* the value it had before.
C11_UpdateMerges ==
    [][\A id \in Ids :
          (runner[id].pc = "read" /\ runner'[id].pc = "open")
          => LET kw == runner[id].kw
                 old == ParseMetadata(metaText[id])
                 new == ParseMetadata(runner'[id].buf)
             IN  /\ Field(new, "status") = kw.status
                 /\ \A i \in 1..Len(kw.extra) :
                        /\ HasKey(new, kw.extra[i][1])
                        /\ Get(new, kw.extra[i][1]) = kw.extra[i][2]
                 /\ \A j \in 1..Len(old) :
                        old[j][1] \notin NamedKeys(kw)
                        => /\ HasKey(new, old[j][1])
                           /\ Get(new, old[j][1]) = old[j][2]]_vars

\* C12: an update_task_status call that finds no record returns to its
\* caller without raising and leaves the files as they are: no directory
\* and no record is made.
C12_UpdateWithoutRecord ==
    [][\A id \in Ids :
          (runner[id].pc = "check" /\ ~metaExists[id] /\ runner'[id].pc # "check")
          => /\ UNCHANGED fsVars
             /\ runner'[id].pc \in {"engine", "models", "done"}
             /\ runner'[id].raised = runner[id].raised
             /\ ~HasRecord(id)']_vars

\* The task was deleted before its runner started; the runner's first
\* update found no record and returned.
C12_Witness ==
    \E id \in Ids :
        /\ runner[id].pc = "engine"
        /\ ~taskDir[id]
        /\ ~HasRecord(id)

\* The created_at a record carries, as a time: -1 when the record has none
\* or it is no timestamp.
RecordedCreatedAt(e) ==
    LET d == ParseMetadata(e.text)
    IN  IF e.isDir /\ e.hasMeta /\ HasKey(d, Txt("created_at"))
           /\ IsIsoText(Get(d, Txt("created_at")))
        THEN FromIsoFormat(Get(d, Txt("created_at")))
        ELSE -1

\* C13: a sweep removes the directories whose record carries a created_at
\* strictly before now - max_age, whatever their status, and leaves every
\* other entry as it was, in place: plain files, directories with no
\* record, records with no created_at and records whose created_at is no
\* timestamp; an entry the sweep cannot read does not end the sweep.
C13_SweepRemovesExactlyTheOld ==
    [][sweep'.runs # sweep.runs
          => LET cutoff == now - sweep'.max_age
                 Stays(d) == ~(RecordedCreatedAt(d.entry) # -1
                               /\ RecordedCreatedAt(d.entry) < cutoff)
             IN  sweep'.dirs = SelectSeq(sweep.dirs, Stays)]_vars

\* A sweep removed the second entry, a task older than the cutoff, after
\* the first one, whose created_at is no timestamp and which stays.
C13_Witness ==
    /\ sweep.runs = 1
    /\ Len(sweep.dirs) = MaxSweepDirs - 1
    /\ sweep.dirs[1].name = 1
    /\ Field(ParseMetadata(sweep.dirs[1].entry.text), "created_at") = Txt("yesterday")
    /\ \A i \in 1..Len(sweep.dirs) : sweep.dirs[i].name # 2

\* C14: a delete call for an id that has no directory answers 200 and
\* changes no file and no job; a delete call that answered 200 leaves no
\* directory and no record of the id, so that deleting the id again is such
\* a call.
C14_DeleteIdempotent ==
    [][\A id \in 0..MaxTasks :
          /\ (~(id \in Ids /\ taskDir[id]) /\ DeleteTask(id))
                => /\ id \in deleted'
                   /\ loop' = loop
                   /\ UNCHANGED <<nextId, fsVars, jobVars>>
          /\ (id \in Ids /\ id \in deleted' /\ id \notin deleted)
                => /\ ~taskDir'[id]
                   /\ ~HasRecord(id)']_vars

\* A delete of an id never handed out and a delete of a task have both
\* answered 200, and the task's directory is gone.
C14_Witness ==
    /\ 0 \in deleted
    /\ \E id \in deleted \cap Ids : ~taskDir[id] /\ runner[id].pc = "queued"

\* No rmtree is under way: neither the delete handler nor a cleanup job is
\* between removing the entries of a directory and removing the directory.
NoRmtreeUnderWay ==
    /\ loop.pc = "idle"
    /\ \A id \in Ids : cleanup[id].pc \notin {"entries", "rmdir"}

\* C15: whenever no removal is under way, a task's directory exists exactly
\* when its record exists.
C15_DirectoryIffRecord ==
    NoRmtreeUnderWay => \A id \in Ids : taskDir[id] <=> HasRecord(id)

\* After the adapter call was entered: the steps of generate/edit and the
\* update calls that follow them.
PastAdapterCall(r) ==
    \/ r.pc \in {"infer", "makedirs", "save", "done", "crashed"}
    \/ r.stage \in {"completed", "failed"}

\* C16: the runner of a task is started once and enters the adapter once;
\* once it is recording or has recorded a failure it makes no update call
\* with another status and does not run again.
C16_NoRetry ==
    [][\A id \in Ids :
          /\ runner[id].pc \notin {"none", "queued"} => runner'[id].pc # "queued"
          /\ PastAdapterCall(runner[id]) => runner'[id].pc # "models"
          /\ runner[id].stage = "failed"
                => /\ runner'[id].stage = "failed"
                   /\ runner'[id].kw.status \in {<<>>, Txt("failed")}
          /\ runner[id].pc \in {"done", "crashed"} => runner'[id].pc = runner[id].pc]_vars

\* The adapter raised, the failure is on record and the runner has returned.
C16_Witness ==
    \E id \in Ids :
        /\ runner[id].pc = "done"
        /\ runner[id].stage = "failed"
        /\ runner[id].raised = "adapter"
        /\ HasRecord(id)
        /\ Field(GetTaskMetadata(id), "error") # <<>>

StatusValues ==
    {Txt("created"), Txt("queued"), Txt("processing"), Txt("completed"), Txt("failed")}

\* C17: the status a status query answers with, for a task that has a
\* record, is one of created, queued, processing, completed, failed, at
\* every point of the runner's rewrites of the record.
C17_StatusIsOneOfFive ==
    \A id \in Ids :
        (HasRecord(id) /\ GetStatusCode(id) = 200)
        => TaskStatus(id).status \in StatusValues

\* C18: _initialize_models takes max_frames 2048 for audio_length 95 and
\* 6144 for every audio_length in 96..285; for any other value it raises
\* its ValueError and leaves the engine, its max_frames and its models as
\* they were.
C18_ConfigurationSelection ==
    [][\A id \in Ids :
          (runner[id].pc = "models" /\ runner'[id].pc # "models")
          => LET n == params[id].audio_length
             IN  /\ \A m \in 0..(AudioMax + 100) :
                        MaxFramesFor(m) = IF m = 95 THEN 2048
                                          ELSE IF m \in 96..285 THEN 6144
                                          ELSE 0
                 /\ n = 95 => engine'.max_frames = 2048
                 /\ n \in 96..285 => engine'.max_frames = 6144
                 /\ n \notin 95..285
                      => /\ engine' = engine
                         /\ runner'[id].raised = "adapter"
                         /\ runner'[id].kw.status = Txt("failed")
                         /\ runner'[id].kw.extra[1][2]
                              = ErrorMsg(params[id].ep, InvalidLengthMsg(n))]_vars

\* An edit task of audio_length 94 was refused by _initialize_models, which
\* loaded nothing.
C18_Witness ==
    \E id \in Ids :
        /\ params[id].audio_length = AudioMin - 1
        /\ runner[id].raised = "adapter"
        /\ runner[id].stage = "failed"
        /\ engine = [made |-> TRUE, max_frames |-> 0, models |-> 0, loads |-> 0]

\* C19: no more than one DiffRhythmInference object is ever constructed,
\* and every call of get_inference_engine that has returned gave the same
\* object.
C19_OneEngine ==
    /\ callers.made <= 1
    /\ \A c, d \in Callers :
          (callers.thread[c].pc = "done" /\ callers.thread[d].pc = "done")
          => callers.thread[c].got = callers.thread[d].got

HasColon(v) == Index(v, COLON) # 0
OneLine(v) == Index(v, NL) = 0

\* The runner's step that writes the record of id and closes the file.
RecordWritten(id) ==
    /\ runner[id].pc = "write"
    /\ runner[id].linked
    /\ runner'[id].pc # "write"

\* C20 as stated: after an update that names a field with a value holding
\* a colon, the record read back does not give that value for the field.
C20_ColonCorruptsValue ==
    [][\A id \in Ids :
          RecordWritten(id)
          => LET kw == runner[id].kw
                 d == ParseMetadata(metaText'[id])
             IN  \A i \in 1..Len(kw.extra) :
                    HasColon(kw.extra[i][2])
                    => \/ ~HasKey(d, kw.extra[i][1])
                       \/ Get(d, kw.extra[i][1]) # kw.extra[i][2]]_vars

\* C20, amended: after an update that names a field with a value of one
\* line holding a colon, the record read back gives that very value for
\* the field: a line is split at its first colon only.
C20_ColonValueReadBack ==
    [][\A id \in Ids :
          RecordWritten(id)
          => LET kw == runner[id].kw
                 d == ParseMetadata(metaText'[id])
             IN  \A i \in 1..Len(kw.extra) :
                    (HasColon(kw.extra[i][2]) /\ OneLine(kw.extra[i][2]))
                    => /\ HasKey(d, kw.extra[i][1])
                       /\ Get(d, kw.extra[i][1]) = kw.extra[i][2]]_vars

\* A failure whose message holds two colons is on record, and its error
\* field reads as it was given.
C20_Witness ==
    \E id \in Ids :
        /\ runner[id].pc = "done"
        /\ HasRecord(id)
        /\ Field(GetTaskMetadata(id), "error")
             = ErrorMsg(params[id].ep, <<"CUDA error", COLON, SP, "out of memory">>)

ExactlyOneStyle(p) == (p.ref_audio = <<>>) # (p.ref_prompt = <<>>)

\* C21: a generate or edit call that is given both a reference audio and a
\* style prompt, or neither, does not get as far as the library's
\* inference returning songs: it raises.
C21_AdapterRequiresOneStyle ==
    [][\A id \in Ids :
          (runner[id].pc = "infer" /\ runner'[id].pc = "makedirs")
          => ExactlyOneStyle(params[id])]_vars

\* The record of the task reads completed or failed.
Terminal(id) ==
    HasRecord(id) /\ StatusOf(GetTaskMetadata(id)) \in {Txt("completed"), Txt("failed")}

C23_FailedSubmissionLeavesNothing ==
    [][(nextId' # nextId /\ last'.code = 500)
          => (~taskDir'[nextId] /\ ~metaExists'[nextId])]_vars

\* The request was let through by its endpoint's checks.
Admitted(req) ==
    /\ req.ep \in {"generate", "edit"}
    /\ IF req.ep = "edit" THEN ~EditRejected(req) ELSE ~GenerateRejected(req)

UploadsOf(req) == IF req.ep = "edit" THEN EditUploads(req) ELSE GenerateUploads(req)

\* C24: the runner and the deferred cleanup of a task are enqueued
\* together, once, by the submission that allocates the id, when the record
\* is written and every upload is staged; a rejected submission or one whose
\* staging raised enqueues neither; the cleanup is not called before the
\* runner has returned.
C24_RunnerThenCleanupEnqueued ==
    [][\A id \in Ids :
          LET enqRunner == runner[id].pc # "queued" /\ runner'[id].pc = "queued"
              enqCleanup == cleanup[id].pc # "pending" /\ cleanup'[id].pc = "pending"
              req == params'[id]
          IN  /\ enqRunner = enqCleanup
              /\ enqRunner =>
                    /\ id = nextId /\ nextId' = nextId + 1
                    /\ runner[id].pc = "none" /\ cleanup[id].pc = "none"
                    /\ Admitted(req)
                    /\ ~StagingRaises(UploadsOf(req))
                    /\ \A i \in 1..Len(UploadsOf(req)) : UploadsOf(req)[i] \in inputFiles'[id]
                    /\ metaText'[id] = CreateTaskRecord(id, now)
                    /\ metaExists'[id]
              /\ (cleanup[id].pc = "pending" /\ cleanup'[id].pc # "pending")
                    => (runner[id].pc = "done" /\ cleanup'[id].pc = "sleep")
              /\ runner[id].pc # "none" => runner'[id].pc # "none"
              /\ runner[id].pc \notin {"none", "queued"} => runner'[id].pc # "queued"]_vars

\* The runner of an accepted task has returned and its deferred cleanup,
\* called after it, is asleep.
C24_Witness ==
    \E id \in Ids : runner[id].pc = "done" /\ cleanup[id].pc = "sleep"

\* C25: the deferred cleanup of a task changes nothing in storage while it
\* waits; it goes on to storage.cleanup_task only when the whole delay,
\* counted from its call, has passed; it returns without raising, and then
\* the task directory does not exist.
C25_CleanupAfterDelay ==
    [][\A id \in Ids :
          /\ (cleanup[id].pc \in {"pending", "sleep"} /\ cleanup'[id] # cleanup[id])
                => UNCHANGED fsVars
          /\ (cleanup[id].pc = "pending" /\ cleanup'[id].pc # "pending")
                => (cleanup'[id].pc = "sleep" /\ cleanup'[id].wake = now + CleanupDelay)
          /\ (cleanup[id].pc = "sleep" /\ cleanup'[id].pc # "sleep")
                => now >= cleanup[id].wake
          /\ cleanup'[id].pc \in {"entries", "rmdir"} => now >= cleanup'[id].wake
          /\ cleanup'[id].pc = "done" => ~taskDir'[id] /\ ~metaExists'[id]
          /\ cleanup[id].pc = "done" => cleanup'[id].pc = "done"]_vars

\* The deferred cleanup, and no client, has removed the directory of a task.
C25_Witness ==
    \E id \in Ids : cleanup[id].pc = "done" /\ ~taskDir[id] /\ deleted = {} /\ loop.pc = "idle"

\* _initialize_models is at the test of the loaded configuration, with a
\* supported audio_length.
AtLoadTest(id) == runner[id].pc = "models" /\ MaxFramesFor(params[id].audio_length) # 0

\* C26: _initialize_models loads the models exactly when none is loaded or
\* the configuration of the request differs from that of the loaded models;
\* with the same configuration the loaded models are used again.
C26_ReloadIffConfigurationDiffers ==
    [][\A id \in Ids :
          (AtLoadTest(id) /\ runner'[id] # runner[id])
          => LET mf == MaxFramesFor(params[id].audio_length)
             IN  (engine'.loads = engine.loads + 1)
                     <=> (engine.models = 0 \/ engine.models # mf)]_vars

\* C27: when generate or edit has passed _initialize_models, the loaded
\* models are those of the max_frames on record, and that is the max_frames
\* of this request's audio_length.
C27_ModelsMatchRequest ==
    \A id \in Ids :
        runner[id].pc = "infer"
        => /\ engine.max_frames = MaxFramesFor(params[id].audio_length)
           /\ engine.models = engine.max_frames

\* C28: each of the runner jobs inside the adapter at the same time runs
\* its inference with the max_frames and the models of its own
\* audio_length.
C28_EachJobItsOwnConfiguration ==
    \A j \in Jobs :
        jobs[j].pc = "ran"
        => /\ jobs[j].frames = MaxFramesFor(jobs[j].n)
           /\ jobs[j].models = MaxFramesFor(jobs[j].n)

\* The fields of a record that a failure update does not name.
KeptKeys == {"task_id", "created_at", "progress", "output_path"}

\* C29: the text the runner writes to record a failure reads back with
\* status failed, whatever the exception message, and with every field the
\* update does not name as it was in the record before.
C29_FailureReadsBackFailed ==
    [][\A id \in Ids :
          (runner[id].stage = "failed" /\ runner[id].pc = "read" /\ runner'[id].pc = "open")
          => LET old == ParseMetadata(metaText[id])
                 new == ParseMetadata(runner'[id].buf)
             IN  /\ StatusOf(new) = Txt("failed")
                 /\ Field(new, "error") # <<>>
                 /\ \A k \in KeptKeys : Field(new, k) = Field(old, k)]_vars

\* The place of a progress text in the order absent < 0 < 10 < 100; -2 for
\* any other text.
ProgressRank(v) ==
    CASE v = <<>> -> -1
      [] v = Txt("0") -> 0
      [] v = Txt("10") -> 10
      [] v = Txt("100") -> 100
      [] OTHER -> -2

\* C30: in every text the runner writes, read back, progress is absent, 0,
\* 10 or 100 and not below the progress of the record before; a failure
\* update leaves it as it was.
C30_ProgressSteps ==
    [][\A id \in Ids :
          (runner[id].pc = "read" /\ runner'[id].pc = "open")
          => LET before == ProgressRank(Field(ParseMetadata(metaText[id]), "progress"))
                 after == ProgressRank(Field(ParseMetadata(runner'[id].buf), "progress"))
             IN  /\ after \in {-1, 0, 10, 100}
                 /\ after >= before
                 /\ runner[id].stage = "failed" => after = before]_vars

\* path is inside directory dir.
Under(path, dir) == Len(path) > Len(dir) /\ SubSeq(path, 1, Len(dir)) = dir

\* C32: the uploads staged for a task change no file outside that task's
\* input directory: its own record stays the one create_task_directory
\* wrote, and every file of another task stays as it was.
C32_StagingStaysInInputDir ==
    [][disk'.next # disk.next
          => LET id == disk.next
             IN  \A f \in disk.files \cup disk'.files :
                     ~Under(f[1], InputDir(id))
                     => IF f[1] = RecordPath(id)
                        THEN f \in disk'.files => f[2] = CreateTaskRecord(id, now)
                        ELSE f \in disk.files /\ f \in disk'.files]_vars

\* C33: when every upload of a submission was staged, the paths handed
\* back for lyrics, reference song and style audio are pairwise distinct
\* and the file at each holds the bytes uploaded for that role.
C33_UploadsOnDistinctPaths ==
    disk.staged.ok
    => LET roles == disk.staged.roles
       IN  /\ \A i, j \in 1..Len(roles) : i # j => roles[i].path # roles[j].path
           /\ \A i \in 1..Len(roles) : <<roles[i].path, <<roles[i].role>> >> \in disk.files

\* The record file of a task, as a set of at most one <<path, content>>.
RecordOf(d, id) == {f \in d.files : f[1] = RecordPath(id)}

\* C31: once the submission of a task has written its record, no step of
\* an endpoint writes that record: the runner of the task, which takes no
\* step here, is its one writer.
C31_OneWriterPerRecord ==
    [][\A id \in 1..(disk.next - 1) : RecordOf(disk', id) = RecordOf(disk, id)]_vars

\* C34: a status query or a download request, whatever it answers, leaves
\* every record, every directory and every stored file as it was.
C34_QueriesReadOnly ==
    [][(last' # last /\ last'.req.ep \in {"status", "download"})
          => UNCHANGED fsVars]_vars

\* A download was served, and the record and the output file are still in
\* place.
C34_Witness ==
    /\ last.req.ep = "download"
    /\ last.code = 200
    /\ HasRecord(last.task)
    /\ outputWav[last.task]

====
